---- MODULE Spec2Model ----
(***************************************************************************)
(* Model of the mesh-generation pipeline of mesh_generator.py:             *)
(*   load_segmentation -> anisotropic_diffusion -> generate_mesh ->        *)
(*   create_smooth_mesh (PolyData, clean, connectivity, windowed-sinc      *)
(*   smoothing) -> visualize_mesh_advanced -> save_mesh.                   *)
(*                                                                         *)
(* Numbers are fixed point: an intensity v stands for v / Unit, a step     *)
(* size g for g / 100.  Volumes are one-dimensional arrays (the diffusion  *)
(* filter is written for any number of axes); a mesh keeps one coordinate  *)
(* per point.  Indices into numpy arrays are 0-based as in the source.     *)
(***************************************************************************)
EXTENDS Integers, Sequences, FiniteSets, TLC

VARIABLES pc, faultable, fileExists, segmentation_data, spacing, params,
          segmentation_data_filtered, verts, faces, cleaned, mesh,
          smooth_mesh, error, log, saved, calls, shared,
          nii_folder, json_folder, listing, position, modality_index,
          input_4d, output_folder, output_4d

vars == <<pc, faultable, fileExists, segmentation_data, spacing, params,
          segmentation_data_filtered, verts, faces, cleaned, mesh,
          smooth_mesh, error, log, saved, calls, shared,
          nii_folder, json_folder, listing, position, modality_index,
          input_4d, output_folder, output_4d>>

(* The variables of mesh_generator.py other than pc, error, log and calls. *)
meshVars == <<faultable, fileExists, segmentation_data, spacing, params,
              segmentation_data_filtered, verts, faces, cleaned, mesh,
              smooth_mesh, saved, shared>>

(* The variables of the file tools (dicom_to_nifti.py, nifti_tools.py). *)
toolVars == <<nii_folder, json_folder, listing, position, modality_index,
              input_4d, output_folder, output_4d>>

----------------------------------------------------------------------------
(* Bounds of the model. *)
FieldLen == 3
MaxIter == 2
MaxVerts == 4
MaxFaces == 3
MaxFiles == 3
MaxTimepoints == 4

(* Fixed-point scale: the float32 value 1.0 of a label voxel. *)
Unit == 1000
(* Spacing of the grid of values a float32 array can hold, in 1/Unit. *)
F32Quantum == 8

(* Values written in the source. *)
TargetLabel == 1
DefaultNiter == 5
DefaultKappa == 50
DefaultGamma == 10
DefaultOption == 1
IsoLevel == 500
SmoothIterations == 30
PassBand == 10

----------------------------------------------------------------------------
(* Generic helpers. *)
Range(s) == {s[i] : i \in 1..Len(s)}

Min(S) == CHOOSE x \in S : \A y \in S : x <= y
Max(S) == CHOOSE x \in S : \A y \in S : x >= y

RECURSIVE SumSeq(_)
SumSeq(s) == IF s = <<>> THEN 0 ELSE Head(s) + SumSeq(Tail(s))

RECURSIVE Flatten(_)
Flatten(ss) == IF ss = <<>> THEN <<>> ELSE Head(ss) \o Flatten(Tail(ss))

----------------------------------------------------------------------------
(* load_segmentation: the image is compared with the target label and      *)
(* converted to float32 (1.0 where equal, 0.0 elsewhere).                   *)
ToFloat32(v) == (v \div F32Quantum) * F32Quantum

Binarize(img, target_label) ==
    [i \in 1..Len(img) |-> ToFloat32(IF img[i] = target_label THEN Unit ELSE 0)]

----------------------------------------------------------------------------
(* medpy.filter.smoothing.anisotropic_diffusion as called at lines 147-154. *)
(* x2u is (delta/kappa)^2 in 1/Unit; the exponential is its series cut      *)
(* after the quadratic term.                                                *)
X2u(delta, kappa) == (delta * delta) \div (kappa * kappa * Unit)

condgradient(delta, sp, kappa, option) ==
    LET x2u == X2u(delta, kappa)
        c   == IF option = 1
               THEN Unit - x2u + ((x2u * x2u) \div (2 * Unit))
               ELSE (Unit * Unit) \div (Unit + x2u)
    IN  c \div sp

(* numpy.diff along the axis, written into all but the last position. *)
Deltas(out) ==
    [i \in 1..Len(out) |-> IF i < Len(out) THEN out[i + 1] - out[i] ELSE 0]

(* One pass of the loop body: conduction-weighted differences, their      *)
(* backward difference, and the in-place float32 update.                   *)
DiffusionStep(out, kappa, gamma, voxelspacing, option) ==
    LET deltas == Deltas(out)
        m  == [i \in 1..Len(out) |->
                 (condgradient(deltas[i], voxelspacing, kappa, option) * deltas[i])
                     \div Unit]
        md == [i \in 1..Len(out) |-> IF i = 1 THEN m[1] ELSE m[i] - m[i - 1]]
    IN  [i \in 1..Len(out) |-> ToFloat32(out[i] + ((gamma * md[i]) \div 100))]

RECURSIVE DiffusionLoop(_, _, _, _, _, _)
DiffusionLoop(out, n, kappa, gamma, voxelspacing, option) ==
    IF n <= 0 THEN out
    ELSE DiffusionLoop(DiffusionStep(out, kappa, gamma, voxelspacing, option),
                       n - 1, kappa, gamma, voxelspacing, option)

(* A faulty variant: the loop runs once more than niter. *)
anisotropic_diffusion_extra(img, niter, kappa, gamma, voxelspacing, option) ==
    DiffusionLoop([i \in 1..Len(img) |-> ToFloat32(img[i])],
                  niter + 1, kappa, gamma, voxelspacing, option)

anisotropic_diffusion(img, niter, kappa, gamma, voxelspacing, option) ==
    DiffusionLoop([i \in 1..Len(img) |-> ToFloat32(img[i])],
                  niter, kappa, gamma, voxelspacing, option)

----------------------------------------------------------------------------
(* Meshes.  A mesh is [bound, points, cells]: points is the sequence of     *)
(* point coordinates, cells the sequence of cells, each a sequence of       *)
(* 0-based point ids (3 ids: triangle, 2: line, 1: vertex cell).  bound is  *)
(* FALSE for a name no mesh has been assigned to yet.                       *)
Unbound == [bound |-> FALSE, points |-> <<>>, cells |-> <<>>]

MkMesh(points, cells) == [bound |-> TRUE, points |-> points, cells |-> cells]

PointAt(m, id) == m.points[id + 1]

(* Lines 48-50: each face prefixed by its size 3, then raveled. *)
RECURSIVE FormatFaces(_)
FormatFaces(fs) ==
    IF fs = <<>> THEN <<>> ELSE (<<3>> \o Head(fs)) \o FormatFaces(Tail(fs))

(* The cell array read back from the raveled [n, id_1 .. id_n, ...] form. *)
RECURSIVE ParseCells(_)
ParseCells(flat) ==
    IF flat = <<>> THEN <<>>
    ELSE LET n == flat[1]
         IN  <<SubSeq(flat, 2, n + 1)>> \o ParseCells(SubSeq(flat, n + 2, Len(flat)))

(* Line 52: pv.PolyData(verts, faces_formatted). *)
PolyData(vs, faces_formatted) == MkMesh(vs, ParseCells(faces_formatted))

(* First occurrences of the elements of a sequence, in order. *)
RECURSIVE Dedup(_)
Dedup(s) ==
    IF s = <<>> THEN <<>>
    ELSE LET r == Dedup(SubSeq(s, 1, Len(s) - 1))
             x == s[Len(s)]
         IN  IF x \in Range(r) THEN r ELSE Append(r, x)

IndexOf(s, x) == CHOOSE i \in 1..Len(s) : s[i] = x

(* A cell with runs of one repeated id collapsed, the run that wraps around *)
(* from the last id to the first included.                                  *)
RECURSIVE DropRepeats(_)
DropRepeats(c) ==
    IF Len(c) <= 1 THEN c
    ELSE LET r == DropRepeats(SubSeq(c, 1, Len(c) - 1))
         IN  IF r[Len(r)] = c[Len(c)] THEN r ELSE Append(r, c[Len(c)])

(* A faulty variant: repeated ids are left in the cell. *)
CollapseCell_keep(c) == c

CollapseCell(c) ==
    LET r == DropRepeats(c)
    IN  IF Len(r) > 2 /\ r[1] = r[Len(r)] THEN SubSeq(r, 1, Len(r) - 1) ELSE r

SelectCells(cs, n) == SelectSeq(cs, LAMBDA c : Len(c) = n)

(* Line 53: mesh.clean(inplace=True) with pyvista's defaults: points at the *)
(* same coordinates are merged (tolerance 0), points no cell uses are       *)
(* dropped, a polygon left with two distinct points becomes a line and one  *)
(* left with a single point a vertex cell; the output lists vertex cells,   *)
(* then lines, then polygons.                                               *)
Clean(m) ==
    LET refs   == Flatten(m.cells)
        coords == Dedup([i \in 1..Len(refs) |-> PointAt(m, refs[i])])
        newId(old) == IndexOf(coords, PointAt(m, old)) - 1
        mapped == [k \in 1..Len(m.cells) |->
                     CollapseCell([j \in 1..Len(m.cells[k]) |-> newId(m.cells[k][j])])]
    IN  MkMesh(coords,
               SelectCells(mapped, 1) \o SelectCells(mapped, 2) \o SelectCells(mapped, 3))

(* Cells i and j of m use a common point. *)
SharePoint(m, i, j) == Range(m.cells[i]) \cap Range(m.cells[j]) # {}

(* The wave of vtkConnectivityFilter: every cell reachable from the set S   *)
(* through cells that use a common point.                                   *)
RECURSIVE Wave(_, _)
Wave(m, S) ==
    LET T == S \cup {j \in 1..Len(m.cells) : \E i \in S : SharePoint(m, i, j)}
    IN  IF T = S THEN S ELSE Wave(m, T)

(* The regions in the order the filter finds them: each is seeded by the    *)
(* lowest cell not yet visited.                                             *)
RECURSIVE Regions(_, _)
Regions(m, visited) ==
    LET rest == (1..Len(m.cells)) \ visited
    IN  IF rest = {} THEN <<>>
        ELSE LET r == Wave(m, {Min(rest)})
             IN  <<r>> \o Regions(m, visited \cup r)

(* A faulty variant: on a tie the later region wins. *)
RECURSIVE LargestRegion_last(_, _)
LargestRegion_last(rs, best) ==
    IF rs = <<>> THEN best
    ELSE LargestRegion_last(Tail(rs),
                            IF Cardinality(Head(rs)) >= Cardinality(best)
                            THEN Head(rs) ELSE best)

(* The largest region by cell count; a later region replaces the current    *)
(* one only if it has strictly more cells.                                  *)
RECURSIVE LargestRegion(_, _)
LargestRegion(rs, best) ==
    IF rs = <<>> THEN best
    ELSE LargestRegion(Tail(rs),
                       IF Cardinality(Head(rs)) > Cardinality(best) THEN Head(rs) ELSE best)

(* The cells of index set K, with the points they use renumbered. *)
ExtractCells(m, K) ==
    LET used  == UNION {Range(m.cells[k]) : k \in K}
        keep  == SelectSeq([i \in 1..Len(m.points) |-> i - 1], LAMBDA id : id \in used)
        cellIx == SelectSeq([k \in 1..Len(m.cells) |-> k], LAMBDA k : k \in K)
    IN  MkMesh([i \in 1..Len(keep) |-> PointAt(m, keep[i])],
               [k \in 1..Len(cellIx) |->
                  [j \in 1..Len(m.cells[cellIx[k]]) |->
                     IndexOf(keep, m.cells[cellIx[k]][j]) - 1]])

(* A faulty variant: every region is kept. *)
Connectivity_all(m) == m

(* Line 54: mesh.connectivity(extraction_mode='largest'). *)
Connectivity(m) == ExtractCells(m, LargestRegion(Regions(m, {}), {}))

(* Lines 66-76: vtkWindowedSincPolyDataFilter, 30 iterations, pass band     *)
(* 0.1, all edge kinds smoothed.  The filter copies the cells of its input  *)
(* and computes new point coordinates; the coordinates are modelled by the  *)
(* two-factor (shrink, then inflate) neighbour averaging the filter         *)
(* approximates, in integer arithmetic.                                     *)
Neighbors(m, id) ==
    (UNION {Range(m.cells[k]) : k \in {k \in 1..Len(m.cells) : id \in Range(m.cells[k])}})
        \ {id}

(* The sum of the coordinates in ps of the points whose ids are in S. *)
RECURSIVE SumAt(_, _)
SumAt(ps, S) ==
    IF S = {} THEN 0
    ELSE LET id == CHOOSE x \in S : TRUE
         IN  ps[id + 1] + SumAt(ps, S \ {id})

(* One averaging pass over the coordinates ps; nb[i] is the set of point   *)
(* ids sharing a cell with point i - 1.                                     *)
LaplacianPass(ps, nb, factor) ==
    LET moved == [i \in 1..Len(ps) |->
                    LET n == Cardinality(nb[i])
                    IN  IF n = 0 THEN ps[i]
                        ELSE ps[i] + ((factor * (SumAt(ps, nb[i]) - n * ps[i]))
                                          \div (100 * n))]
    IN  SubSeq(moved, 1, Len(ps))

(* The remaining n iterations; coordinates that an iteration leaves as    *)
(* they are stay so for the rest.                                           *)
RECURSIVE SmoothLoop(_, _, _)
SmoothLoop(ps, nb, n) ==
    IF n <= 0 THEN ps
    ELSE LET shrunk   == LaplacianPass(ps, nb, 33)
             inflated == LaplacianPass(shrunk, nb, 0 - (10000 \div (303 - PassBand)))
         IN  IF inflated = ps THEN ps ELSE SmoothLoop(inflated, nb, n - 1)

(* A faulty variant: only the triangles are passed on. *)
WindowedSinc_polysOnly(m) ==
    LET t  == MkMesh(m.points, SelectCells(m.cells, 3))
        nb == SubSeq([i \in 1..Len(t.points) |-> Neighbors(t, i - 1)], 1, Len(t.points))
    IN  IF Len(t.points) = 0 THEN t
        ELSE [t EXCEPT !.points = SmoothLoop(t.points, nb, SmoothIterations)]

WindowedSinc(m) ==
    LET nb == SubSeq([i \in 1..Len(m.points) |-> Neighbors(m, i - 1)], 1, Len(m.points))
    IN  IF Len(m.points) = 0 THEN m
        ELSE [m EXCEPT !.points = SmoothLoop(m.points, nb, SmoothIterations)]

----------------------------------------------------------------------------
(* State.                                                                   *)
(*   pc          the statement of __main__ (or of the function called)      *)
(*               about to run; "done" once the program has ended            *)
(*   faultable   the library steps that may raise in this run               *)
(*   fileExists  whether the NIfTI file at nifti_path exists                 *)
(*   params      niter, kappa, gamma, option passed to the diffusion filter *)
(*   segmentation_data .. smooth_mesh   the variables of the source         *)
(*   cleaned     the value of mesh between lines 53 and 54                  *)
(*   error       the exception that ended the run, or "none"                *)
(*   log         the messages printed, in order                             *)
(*   saved       the mesh written to mesh_output/mesh.stl, or Unbound       *)
(*   calls       the stage functions called so far, each with its argument  *)
(*   shared      the pairs of variables whose arrays are the same memory    *)
(*   nii_folder, json_folder   the two folders of renombrar_archivos, each   *)
(*               a function from file name to content                        *)
(*   listing, position   the result of os.listdir and the loop's place in it *)
(*   modality_index      the counter of renombrar_archivos                   *)
(*   input_4d    the volume read by split_4d_volume                          *)
(*   output_folder       the files of the split, as <<name, image>> pairs    *)
(*   output_4d   the volume written by merge_to_4d                           *)
NoField == <<>>

SourceParams ==
    [niter |-> DefaultNiter, kappa |-> DefaultKappa,
     gamma |-> DefaultGamma, option |-> DefaultOption]

Call(stage, arg) == Append(calls, [stage |-> stage, arg |-> arg])

(* An exception reaching line 168: it is printed and the program ends. *)
Raise(e, printed) ==
    /\ error' = e
    /\ log' = (log \o printed) \o <<"Error en el proceso">>
    /\ pc' = "done"

(* What nib.load can read from the file: a label volume with labels 0, 1,  *)
(* 2 and its voxel spacing.                                                 *)
Volumes == [data : [1..FieldLen -> {0, 1, 2}], zooms : {1, 2}]

(* Line 130. *)
nifti_path == "time_01.nii.gz"

(* A faulty variant: the file is never found missing. *)
FileMissing_never == FALSE

(* Line 13: os.path.exists(nifti_path) is false. *)
FileMissing == ~fileExists

(* Lines 12-23 and 134-135.  The message of the FileNotFoundError of line   *)
(* 14 is printed by line 169; the log holds it as the entry before "Error   *)
(* en el proceso".                                                          *)
load_segmentation ==
    /\ pc = "load"
    /\ calls' = Call("load", nifti_path)
    /\ IF FileMissing
       THEN /\ Raise("FileNotFoundError", <<"Archivo no encontrado: " \o nifti_path>>)
            /\ UNCHANGED <<segmentation_data, spacing>>
       ELSE /\ \E img \in Volumes :
                 /\ segmentation_data' = Binarize(img.data, TargetLabel)
                 /\ spacing' = img.zooms
            /\ log' = Append(log, "Segmentacion cargada correctamente.")
            /\ pc' = "filter"
            /\ UNCHANGED error
    /\ UNCHANGED <<toolVars, shared, faultable, fileExists, params, segmentation_data_filtered,
                   verts, faces, cleaned, mesh, smooth_mesh, saved>>

(* Lines 147-155: the filter takes whatever step size it is given. *)
LabelFilter ==
    /\ pc = "filter"
    /\ calls' = Call("filter", <<segmentation_data, spacing>>)
    /\ segmentation_data_filtered' =
           anisotropic_diffusion(segmentation_data, params.niter, params.kappa,
                                 params.gamma, spacing, params.option)
    /\ log' = Append(log, "Filtrado de difusion anisotropica aplicado.")
    /\ pc' = "extract"
    /\ UNCHANGED <<toolVars, shared, faultable, fileExists, segmentation_data, spacing, params,
                   verts, faces, cleaned, mesh, smooth_mesh, error, saved>>

(* Lines 26-41: skimage.measure.marching_cubes refuses a level outside the  *)
(* range of the data; otherwise it returns a triangle soup.  The soup is    *)
(* any one of the bounded family MarchingCubesOutput: every vertex is used, *)
(* vertices are numbered in the order the faces first use them, no two      *)
(* vertices coincide and every face has three different vertices.           *)
LexLess(f, g) ==
    \/ f[1] < g[1]
    \/ f[1] = g[1] /\ f[2] < g[2]
    \/ f[1] = g[1] /\ f[2] = g[2] /\ f[3] < g[3]

ProperTriples(n) ==
    {t \in [1..3 -> 0..(n - 1)] : t[1] < t[2] /\ t[2] < t[3]}

FaceLists(T, k) ==
    {fs \in [1..k -> T] : \A i \in 1..(k - 1) : LexLess(fs[i], fs[i + 1])}

MarchingCubesOutput(n, fs) ==
    /\ Len(fs) >= 1
    /\ Dedup(Flatten(fs)) = [i \in 1..n |-> i - 1]

(* A faulty variant: no level is refused. *)
LevelOutOfRange_never(field, level) == FALSE

LevelOutOfRange(field, level) ==
    \/ level < Min(Range(field))
    \/ level > Max(Range(field))

Extract(field) ==
    /\ pc = "extract"
    /\ calls' = Call("extract", <<field, spacing>>)
    /\ IF LevelOutOfRange(field, IsoLevel)
       THEN /\ Raise("ValueError", <<>>)
            /\ UNCHANGED <<verts, faces>>
       ELSE /\ \E n \in 3..MaxVerts, k \in 1..MaxFaces :
                 \E fs \in FaceLists(ProperTriples(n), k) :
                    /\ MarchingCubesOutput(n, fs)
                    /\ verts' = [i \in 1..n |-> (i - 1) * spacing * Unit]
                    /\ faces' = fs
            /\ log' = log \o <<"Numero de vertices generados", "Numero de caras generadas",
                               "Malla generada usando el algoritmo Marching Cubes.">>
            /\ pc' = "clean"
            /\ UNCHANGED error
    /\ UNCHANGED <<toolVars, shared, faultable, fileExists, segmentation_data, spacing, params,
                   segmentation_data_filtered, cleaned, mesh, smooth_mesh, saved>>

(* A faulty variant: the extractor is given the unfiltered field. *)
generate_mesh_unfiltered == Extract(segmentation_data)

(* Line 157: the extractor is given the filtered field. *)
generate_mesh == Extract(segmentation_data_filtered)

(* create_smooth_mesh returning value to line 160, which prints line 161. *)
Return(value, printed) ==
    /\ smooth_mesh' = value
    /\ log' = (log \o printed) \o <<"Malla suavizada correctamente.">>
    /\ pc' = "view"
    /\ UNCHANGED error

(* Memory shared between the arrays of the program's variables, as a set   *)
(* of pairs of variable names.  Line 52: pv.PolyData(verts, ...) is called  *)
(* with its default deep=False and wraps the vertex array without copying   *)
(* it, so the points of mesh are the memory of verts; faces_formatted is a  *)
(* new array (np.hstack, astype).  Lines 53 and 54: clean(inplace=True) and *)
(* connectivity give mesh the arrays of the filter's output.  Line 84: the  *)
(* caller's variable is bound to the object mesh names.                     *)
Wrapped(sh) == sh \cup {{"verts", "mesh"}}

Replaced(sh) == {s \in sh : "mesh" \notin s}

Returned_as(name, sh) ==
    {IF "mesh" \in s THEN (s \ {"mesh"}) \cup {name} ELSE s : s \in sh}

(* Lines 45-57 of create_smooth_mesh: the PolyData is built, cleaned and    *)
(* reduced to its largest region.  A step that raises is caught at line 82: *)
(* the handler prints and returns mesh, which is not assigned yet when      *)
(* lines 48-52 raised.                                                      *)
SurfaceCleaner ==
    /\ pc = "clean"
    /\ calls' = Call("clean", <<verts, faces>>)
    /\ \E failAt \in {"none"} \cup (faultable \cap {"build", "clean", "connectivity"}) :
         LET raw == PolyData(verts, FormatFaces(faces))
             started == <<"Creando la malla con PyVista...">>
         IN  CASE failAt = "build" ->
                    /\ mesh' = Unbound
                    /\ cleaned' = Unbound
                    /\ shared' = shared
                    /\ Raise("UnboundLocalError", started \o <<"Error durante el suavizado">>)
                    /\ UNCHANGED smooth_mesh
               [] failAt = "clean" ->
                    /\ mesh' = raw
                    /\ cleaned' = Unbound
                    /\ shared' = Returned_as("smooth_mesh", Wrapped(shared))
                    /\ Return(raw, started \o <<"Error durante el suavizado">>)
               [] failAt = "connectivity" ->
                    /\ mesh' = Clean(raw)
                    /\ cleaned' = Clean(raw)
                    /\ shared' = Returned_as("smooth_mesh", Replaced(Wrapped(shared)))
                    /\ Return(Clean(raw), started \o <<"Error durante el suavizado">>)
               [] failAt = "none" ->
                    /\ cleaned' = Clean(raw)
                    /\ mesh' = Connectivity(Clean(raw))
                    /\ shared' = Replaced(Replaced(Wrapped(shared)))
                    /\ log' = (log \o started) \o <<"Vertices antes del suavizado",
                                                    "Caras antes del suavizado">>
                    /\ pc' = "smooth"
                    /\ UNCHANGED <<smooth_mesh, error>>
    /\ UNCHANGED <<toolVars, faultable, fileExists, segmentation_data, spacing, params,
                   segmentation_data_filtered, verts, faces, saved>>

(* A faulty variant: the handler lets the error through. *)
SmoothFallback_reraise ==
    /\ Raise("RuntimeError", <<"Error durante el suavizado">>)
    /\ UNCHANGED smooth_mesh

(* Lines 82-84: the handler of create_smooth_mesh. *)
SmoothFallback == Return(mesh, <<"Error durante el suavizado">>)

(* Lines 66-84: the smoothing filter runs on mesh; if it raises, the        *)
(* handler prints the error and returns mesh as it is.                      *)
SurfaceSmoother ==
    /\ pc = "smooth"
    /\ calls' = Call("smooth", mesh)
    /\ \E fails \in {FALSE} \cup (IF "smooth" \in faultable THEN {TRUE} ELSE {}) :
         IF fails
         THEN SmoothFallback
         ELSE Return(WindowedSinc(mesh), <<"Vertices despues del suavizado",
                                           "Caras despues del suavizado">>)
    /\ UNCHANGED <<toolVars, shared, faultable, fileExists, segmentation_data, spacing, params,
                   segmentation_data_filtered, verts, faces, cleaned, mesh, saved>>

(* Lines 87-115 and 163: the plotter refuses a mesh without points. *)
visualize_mesh_advanced ==
    /\ pc = "view"
    /\ calls' = Call("view", smooth_mesh)
    /\ IF Len(smooth_mesh.points) = 0
       THEN Raise("ValueError", <<>>)
       ELSE pc' = "export" /\ UNCHANGED <<error, log>>
    /\ UNCHANGED <<toolVars, shared, faultable, fileExists, segmentation_data, spacing, params,
                   segmentation_data_filtered, verts, faces, cleaned, mesh, smooth_mesh,
                   saved>>

(* Lines 118-127 and 165-166: a failure of mesh.save is printed, not raised. *)
save_mesh ==
    /\ pc = "export"
    /\ calls' = Call("export", smooth_mesh)
    /\ \E written \in {TRUE} \cup (IF "save" \in faultable THEN {FALSE} ELSE {}) :
         IF written
         THEN saved' = smooth_mesh /\ log' = Append(log, "Malla guardada en")
         ELSE saved' = saved /\ log' = Append(log, "Error al guardar la malla")
    /\ pc' = "done"
    /\ UNCHANGED <<toolVars, shared, faultable, fileExists, segmentation_data, spacing, params,
                   segmentation_data_filtered, verts, faces, cleaned, mesh, smooth_mesh,
                   error>>

----------------------------------------------------------------------------
(* The program: __main__ on the file at nifti_path. *)
(* No folder, listing or volume of the file tools is in use. *)
ToolsIdle ==
    /\ nii_folder = <<>> /\ json_folder = <<>> /\ listing = <<>>
    /\ position = 0 /\ modality_index = 0
    /\ input_4d = <<>> /\ output_folder = {} /\ output_4d = <<>>

Idle ==
    /\ segmentation_data = NoField /\ spacing = 1
    /\ segmentation_data_filtered = NoField
    /\ verts = <<>> /\ faces = <<>>
    /\ cleaned = Unbound /\ mesh = Unbound /\ smooth_mesh = Unbound /\ saved = Unbound
    /\ error = "none" /\ log = <<>> /\ calls = <<>> /\ shared = {}

Init ==
    /\ pc = "load"
    /\ faultable = {"smooth", "save"}
    /\ fileExists \in BOOLEAN
    /\ params = SourceParams
    /\ Idle
    /\ ToolsIdle

Next ==
    \/ load_segmentation
    \/ LabelFilter
    \/ generate_mesh
    \/ SurfaceCleaner
    \/ SurfaceSmoother
    \/ visualize_mesh_advanced
    \/ save_mesh

Spec == Init /\ [][Next]_vars

(* The program is one thread running to its end: once create_smooth_mesh   *)
(* has returned, the viewer and then the export run.                        *)
FairSpec ==
    Spec /\ WF_vars(visualize_mesh_advanced) /\ WF_vars(save_mesh)

----------------------------------------------------------------------------
(* The diffusion filter on its own: any label field, any parameters of the  *)
(* bounded ranges (gamma in hundredths).                                    *)
InitFilter ==
    /\ pc = "filter"
    /\ faultable = {}
    /\ fileExists = TRUE
    /\ params \in [niter : 0..MaxIter, kappa : {2, 50}, gamma : {10, 25, 30},
                   option : {1, 2}]
    /\ segmentation_data \in [1..FieldLen -> {0, Unit}]
    /\ spacing \in {1, 2}
    /\ segmentation_data_filtered = NoField
    /\ verts = <<>> /\ faces = <<>>
    /\ cleaned = Unbound /\ mesh = Unbound /\ smooth_mesh = Unbound /\ saved = Unbound
    /\ error = "none" /\ log = <<>> /\ calls = <<>> /\ shared = {}
    /\ ToolsIdle

NextFilter == LabelFilter

SpecFilter == InitFilter /\ [][NextFilter]_vars

----------------------------------------------------------------------------
(* create_smooth_mesh on its own: any soup of the bounded family.  Vertices *)
(* lie at 0, Unit, 2*Unit, ...; consecutive vertices may coincide.  A face  *)
(* is three different vertex ids or one id three times.                     *)
Coordinates(n) ==
    {[i \in 1..n |-> Unit * SumSeq([j \in 1..(i - 1) |-> st[j]])] :
        st \in [1..(n - 1) -> {0, 1}]}

SoupTriples(n) ==
    ProperTriples(n) \cup {[i \in 1..3 |-> a] : a \in 0..(n - 1)}

InitMesh ==
    /\ pc = "clean"
    /\ faultable = {"build", "clean", "connectivity", "smooth"}
    /\ fileExists = TRUE
    /\ params = SourceParams
    /\ segmentation_data = NoField /\ spacing = 1
    /\ segmentation_data_filtered = NoField
    /\ \E n \in 0..MaxVerts, k \in 0..MaxFaces :
          /\ verts \in Coordinates(n)
          /\ faces \in FaceLists(SoupTriples(n), k)
    /\ cleaned = Unbound /\ mesh = Unbound /\ smooth_mesh = Unbound /\ saved = Unbound
    /\ error = "none" /\ log = <<>> /\ calls = <<>> /\ shared = {}
    /\ ToolsIdle

NextMesh ==
    \/ SurfaceCleaner
    \/ SurfaceSmoother

SpecMesh == InitMesh /\ [][NextMesh]_vars

----------------------------------------------------------------------------
(* dicom_to_nifti.py: renombrar_archivos on the folder dcm2niix wrote to.   *)
(* A file name is its stem and its extension; a folder maps the names of    *)
(* its files to their contents, and the content of a file is the name it    *)
(* had when the function was called.                                        *)
FileName(stem, ext) == [stem |-> stem, ext |-> ext]

(* Line 5 (default of convert_dicom_to_nifti) and line 19. *)
case_prefix == "time"

FirstModalityIndex == 1

DigitStr == <<"0", "1", "2", "3", "4", "5", "6", "7", "8", "9">>

RECURSIVE Decimal(_)
Decimal(n) ==
    IF n < 10 THEN DigitStr[n + 1]
    ELSE Decimal(n \div 10) \o DigitStr[(n % 10) + 1]

(* The format {n:02d}. *)
Format02d(n) == IF n < 10 THEN "0" \o Decimal(n) ELSE Decimal(n)

(* Lines 46 and 55. *)
new_name_nii(prefix, index) ==
    FileName((prefix \o "_") \o (Format02d(index) \o "_0000"), ".nii.gz")

new_name_json(prefix, index) ==
    FileName((prefix \o "_") \o (Format02d(index) \o "_0000"), ".json")

EmptyFolder == [n \in {} |-> n]

(* os.rename(old, new) within a folder, on POSIX: a file already at new is  *)
(* replaced without a word; renaming a file to its own name changes nothing.*)
Rename(folder, old, new) ==
    [n \in (DOMAIN folder \ {old}) \cup {new} |->
        IF n = new THEN folder[old] ELSE folder[n]]

Remove(folder, name) == [n \in DOMAIN folder \ {name} |-> folder[n]]

Put(folder, name, content) ==
    [n \in DOMAIN folder \cup {name} |-> IF n = name THEN content ELSE folder[n]]

(* The orders in which os.listdir can return the names in S. *)
Orderings(S) == {f \in [1..Cardinality(S) -> S] : Range(f) = S}

(* Line 43: os.listdir is evaluated once, before the first iteration. *)
renombrar_archivos ==
    /\ pc = "listdir"
    /\ listing' \in Orderings(DOMAIN nii_folder)
    /\ position' = 1
    /\ pc' = IF DOMAIN nii_folder = {} THEN "done" ELSE "rename"
    /\ UNCHANGED <<nii_folder, json_folder, modality_index, input_4d, output_folder,
                   output_4d, meshVars, error, log, calls>>

(* Lines 43-62: one iteration of the loop, on listing[position]. *)
RenameNext ==
    /\ pc = "rename"
    /\ LET archivo == listing[position]
           new_nii == new_name_nii(case_prefix, modality_index)
           last    == position = Len(listing)
       IN  IF archivo.ext # ".nii.gz"
           THEN /\ pc' = IF last THEN "done" ELSE "rename"
                /\ UNCHANGED <<nii_folder, json_folder, modality_index, error, log>>
           ELSE IF archivo \notin DOMAIN nii_folder
           THEN /\ error' = "FileNotFoundError"
                /\ pc' = "done"
                /\ UNCHANGED <<nii_folder, json_folder, modality_index, log>>
           ELSE LET renamed   == Rename(nii_folder, archivo, new_nii)
                    json_name == FileName(archivo.stem, ".json")
                IN  /\ IF json_name \in DOMAIN renamed
                       THEN /\ nii_folder' = Remove(renamed, json_name)
                            /\ json_folder' = Put(json_folder,
                                                  new_name_json(case_prefix, modality_index),
                                                  renamed[json_name])
                            /\ log' = log \o <<"Renombrado NIfTI", "Renombrado y movido JSON">>
                       ELSE /\ nii_folder' = renamed
                            /\ json_folder' = json_folder
                            /\ log' = log \o <<"Renombrado NIfTI", "Falta archivo JSON para">>
                    /\ modality_index' = modality_index + 1
                    /\ pc' = IF last THEN "done" ELSE "rename"
                    /\ UNCHANGED error
    /\ position' = position + 1
    /\ UNCHANGED <<listing, input_4d, output_folder, output_4d, meshVars, calls>>

(* The files dcm2niix or an earlier run may have left in the folder. *)
FolderNames ==
    {FileName("a", ".nii.gz"), FileName("b", ".nii.gz"),
     FileName("a", ".json"), FileName("b", ".json"),
     new_name_nii(case_prefix, 1), new_name_nii(case_prefix, 2),
     FileName("notes", ".txt")}

InitRename ==
    /\ pc = "listdir"
    /\ faultable = {} /\ fileExists = TRUE /\ params = SourceParams
    /\ Idle
    /\ \E S \in SUBSET FolderNames :
          /\ Cardinality(S) <= MaxFiles
          /\ nii_folder = [n \in S |-> n]
    /\ json_folder = EmptyFolder
    /\ listing = <<>> /\ position = 0
    /\ modality_index = FirstModalityIndex
    /\ input_4d = <<>> /\ output_folder = {} /\ output_4d = <<>>

NextRename ==
    \/ renombrar_archivos
    \/ RenameNext

SpecRename == InitRename /\ [][NextRename]_vars

----------------------------------------------------------------------------
(* nifti_tools.py: split_4d_volume by time, then merge_to_4d on the folder  *)
(* it wrote.  A file name is the sequence of the code points of its         *)
(* characters, which is what sorted() compares.  A volume is its affine and *)
(* the sequence of its 3D frames along the last axis; frames are written    *)
(* and read back as float64, without loss.                                  *)
TimePadWidth == 4

Pow10(n) == IF n = 0 THEN 1 ELSE IF n = 1 THEN 10 ELSE IF n = 2 THEN 100
            ELSE IF n = 3 THEN 1000 ELSE 10000

(* The decimal digits of n as code points ("0" is 48). *)
RECURSIVE DecimalCodes(_)
DecimalCodes(n) ==
    IF n < 10 THEN <<48 + n>>
    ELSE Append(DecimalCodes(n \div 10), 48 + (n % 10))

(* The format {t:04d}: zeros in front up to four characters, never fewer    *)
(* characters than the number has digits.                                   *)
RECURSIVE PadZeros(_, _)
PadZeros(digits, width) ==
    IF Len(digits) >= width THEN digits ELSE PadZeros(<<48>> \o digits, width)

Format04d(t) == PadZeros(DecimalCodes(t), TimePadWidth)

(* "v", "_time_" and ".nii.gz" in code points. *)
nombre_base == <<118>>

TimeInfix == <<95, 116, 105, 109, 101, 95>>

NiiGz == <<46, 110, 105, 105, 46, 103, 122>>

(* Line 58: the name of the file of time point t. *)
output_filename(base_name, t) == ((base_name \o TimeInfix) \o Format04d(t)) \o NiiGz

(* The output folder is the set of its files, each a pair of its name and   *)
(* the image nib.load reads from it.                                        *)
(* sorted(): the files of S in lexicographic order of the code points of    *)
(* their names; a name that ends comes before the names that go on.         *)
(* SortFrom orders files whose names agree before position p, by the code   *)
(* point at p and then by the rest.                                         *)
RECURSIVE SortFrom(_, _)
RECURSIVE SortByCode(_, _, _)
SortFrom(S, p) ==
    IF S = {} THEN <<>>
    ELSE IF Cardinality(S) = 1 THEN <<CHOOSE x \in S : TRUE>>
    ELSE LET ended == {x \in S : Len(x[1]) < p}
             rest  == S \ ended
         IN  SortFrom(ended, p) \o SortByCode({x[1][p] : x \in rest}, rest, p)

SortByCode(codes, S, p) ==
    IF codes = {} THEN <<>>
    ELSE LET c == Min(codes)
         IN  SortFrom({x \in S : x[1][p] = c}, p + 1) \o SortByCode(codes \ {c}, S, p)

sorted(S) == SortFrom(S, 1)

(* Lines 13-38 and 52-60: every time point is written to its own file; a    *)
(* file of the same name is replaced.                                       *)
split_4d_volume ==
    /\ pc = "split"
    /\ IF input_4d.ndim # 4
       THEN /\ error' = "ValueError"
            /\ pc' = "done"
            /\ UNCHANGED <<output_folder, log>>
       ELSE /\ output_folder' =
                  LET num_timepoints == Len(input_4d.frames)
                      written == {<<output_filename(nombre_base, t),
                                    [data |-> input_4d.frames[t + 1],
                                     affine |-> input_4d.affine]>> :
                                      t \in 0..(num_timepoints - 1)}
                  IN  {f \in output_folder : \A w \in written : w[1] # f[1]} \cup written
            /\ log' = Append(log, "Separando en el tiempo")
            /\ pc' = "merge"
            /\ UNCHANGED error
    /\ UNCHANGED <<input_4d, output_4d, nii_folder, json_folder, listing, position,
                   modality_index, meshVars, calls>>

(* Lines 63-95: the files of the folder, in sorted order of their names,    *)
(* become the time points of one volume with the affine of the first.       *)
merge_to_4d ==
    /\ pc = "merge"
    /\ \E files \in {sorted(output_folder)} :
           IF files = <<>>
           THEN /\ error' = "ValueError"
                /\ UNCHANGED <<output_4d, log>>
           ELSE /\ output_4d' = [frames |-> [t \in 1..Len(files) |-> files[t][2].data],
                                 affine |-> files[1][2].affine,
                                 ndim   |-> 4]
                /\ log' = Append(log, "Archivo 4D guardado en")
                /\ UNCHANGED error
    /\ pc' = "done"
    /\ UNCHANGED <<input_4d, output_folder, nii_folder, json_folder, listing, position,
                   modality_index, meshVars, calls>>

(* The volumes given to split_4d_volume: short series of any frames, a      *)
(* series with one time point more than four digits can number, and a 3D    *)
(* volume.                                                                  *)
InputVolumes ==
    {[frames |-> fr, affine |-> a, ndim |-> 4] :
        fr \in UNION {[1..n -> {0, 1}] : n \in 1..MaxTimepoints}, a \in {1, 2}}
    \cup {[frames |-> [t \in 1..(Pow10(TimePadWidth) + 1) |-> t], affine |-> 1, ndim |-> 4]}
    \cup {[frames |-> <<fr>>, affine |-> 1, ndim |-> 3] : fr \in {0, 1}}

InitNifti ==
    /\ pc = "split"
    /\ faultable = {} /\ fileExists = TRUE /\ params = SourceParams
    /\ Idle
    /\ nii_folder = <<>> /\ json_folder = <<>> /\ listing = <<>>
    /\ position = 0 /\ modality_index = 0
    /\ input_4d \in InputVolumes
    /\ output_folder = {}
    /\ output_4d = <<>>

NextNifti ==
    \/ split_4d_volume
    \/ merge_to_4d

SpecNifti == InitNifti /\ [][NextNifti]_vars

----------------------------------------------------------------------------
(* Vocabulary of the properties. *)
Called(stage) == \E i \in 1..Len(calls) : calls[i].stage = stage

ArgOf(stage) == calls[CHOOSE i \in 1..Len(calls) : calls[i].stage = stage].arg

Printed(msg) == msg \in Range(log)

PipelineOrder == <<"load", "filter", "extract", "clean", "smooth", "export">>

(* The calls of the run without the viewer's. *)
PipelineCalls == SelectSeq(calls, LAMBDA c : c.stage # "view")

AllZero(field) == \A i \in 1..Len(field) : field[i] = 0

(* Components of the cells of m under an adjacency given as a set of pairs  *)
(* of cell indices: the sets of cells reachable from one another.           *)
RECURSIVE Reach(_, _)
Reach(adj, S) ==
    LET T == S \cup {x[2] : x \in {y \in adj : y[1] \in S}}
    IN  IF T = S THEN S ELSE Reach(adj, T)

CellIx(m) == 1..Len(m.cells)

PointAdj(m) ==
    {x \in CellIx(m) \X CellIx(m) :
        Range(m.cells[x[1]]) \cap Range(m.cells[x[2]]) # {}}

EdgeAdj(m) ==
    {x \in CellIx(m) \X CellIx(m) :
        \/ x[1] = x[2]
        \/ Cardinality(Range(m.cells[x[1]]) \cap Range(m.cells[x[2]])) >= 2}

Components(m, adj) == {Reach(adj, {i}) : i \in CellIx(m)}

(* A cell as the coordinates of its points, and the cells of index set K in *)
(* cell order.                                                              *)
CellCoords(m, k) == [j \in 1..Len(m.cells[k]) |-> PointAt(m, m.cells[k][j])]

CoordsOf(m, K) ==
    LET ix == SelectSeq([k \in 1..Len(m.cells) |-> k], LAMBDA k : k \in K)
    IN  [k \in 1..Len(ix) |-> CellCoords(m, ix[k])]

PointsUsed(m, K) == {PointAt(m, id) : id \in UNION {Range(m.cells[k]) : k \in K}}

(* m is exactly the part K of c: its cells, in order, and their points. *)
IsPart(m, c, K) ==
    /\ CoordsOf(m, CellIx(m)) = CoordsOf(c, K)
    /\ Range(m.points) = PointsUsed(c, K)
    /\ Len(m.points) = Cardinality(PointsUsed(c, K))

----------------------------------------------------------------------------
(* C1: in a run of the program the stage functions are called in the order  *)
(* load, filter, extract, clean, smooth, export, each at most once and none *)
(* after a later one; a stage is called only when its predecessor has       *)
(* produced its output, and it is given exactly that output.                *)
C1_StageOrder ==
    /\ Len(PipelineCalls) <= Len(PipelineOrder)
    /\ \A i \in 1..Len(PipelineCalls) : PipelineCalls[i].stage = PipelineOrder[i]
    /\ \A i \in 1..Len(calls) :
         LET c == calls[i]
         IN  /\ c.stage = "filter" =>
                   segmentation_data # NoField /\ c.arg = <<segmentation_data, spacing>>
             /\ c.stage = "extract" =>
                   /\ segmentation_data_filtered # NoField
                   /\ c.arg = <<segmentation_data_filtered, spacing>>
             /\ c.stage = "clean" => faces # <<>> /\ c.arg = <<verts, faces>>
             /\ c.stage = "smooth" => mesh.bound /\ c.arg = mesh
             /\ c.stage = "export" => smooth_mesh.bound /\ c.arg = smooth_mesh

C1_Witness ==
    /\ pc = "done" /\ error = "none"
    /\ Len(PipelineCalls) = Len(PipelineOrder)
    /\ segmentation_data_filtered # segmentation_data
    /\ smooth_mesh # mesh

(* C3: once the smoothing step has failed, the run reports no fatal error,  *)
(* and it goes on to end with the export called on the unsmoothed mesh.     *)
SmoothingFailed == Called("smooth") /\ Printed("Error durante el suavizado")

ExportedUnsmoothed ==
    /\ pc = "done" /\ error = "none"
    /\ Called("export") /\ ArgOf("export") = mesh
    /\ ~Printed("Error en el proceso")

C3_SmoothingFailureNotFatal ==
    /\ [](SmoothingFailed => error = "none")
    /\ (SmoothingFailed ~> ExportedUnsmoothed)

C3_Witness == SmoothingFailed /\ ExportedUnsmoothed /\ saved = mesh /\ Len(mesh.cells) >= 1

(* C7 as claimed: on an all-zero label field generate_mesh returns normally *)
(* with zero vertices and zero triangles that the caller can inspect.       *)
C7_EmptyResultReturned ==
    (AllZero(segmentation_data) /\ Called("extract")) =>
        (error = "none" /\ pc # "done" /\ verts = <<>> /\ faces = <<>>)

(* C7 as amended: on an all-zero label field generate_mesh does not return; *)
(* the level is refused with a ValueError, the run ends there with the      *)
(* error printed, no vertex or face array exists and no later stage is      *)
(* called.                                                                  *)
C7_ZeroFieldRefused ==
    (AllZero(segmentation_data) /\ Called("extract")) =>
        /\ error = "ValueError" /\ pc = "done"
        /\ Printed("Error en el proceso")
        /\ verts = <<>> /\ faces = <<>>
        /\ calls[Len(calls)].stage = "extract"
        /\ saved = Unbound

C7_Witness ==
    /\ Called("extract") /\ AllZero(segmentation_data)
    /\ AllZero(segmentation_data_filtered) /\ error = "ValueError"

(* C9 as claimed: the filter refuses a step size above 0.25 with an         *)
(* InvalidParameter error and produces no field; it accepts one of at most  *)
(* 0.25.                                                                    *)
C9_StepSizeBound ==
    Called("filter") =>
        IF params.gamma > 25
        THEN error = "InvalidParameter" /\ segmentation_data_filtered = NoField
        ELSE error = "none" /\ segmentation_data_filtered # NoField

(* C10: the filter called with zero iterations returns its input, voxel for *)
(* voxel, whatever the other parameters.                                    *)
C10_ZeroIterationsIdentity ==
    (Called("filter") /\ params.niter = 0) =>
        segmentation_data_filtered = segmentation_data

C10_Witness ==
    /\ Called("filter") /\ params.niter = 0 /\ params.gamma = 30
    /\ segmentation_data_filtered # NoField
    /\ \E i, j \in 1..Len(segmentation_data) : segmentation_data[i] # segmentation_data[j]

(* The mesh create_smooth_mesh is meant to fall back to: the soup with      *)
(* duplicates merged, reduced to its largest region.                        *)
CleanMeshOf(vs, fs) == Connectivity(Clean(PolyData(vs, FormatFaces(fs))))

Returned == pc = "view"

(* C2 as claimed: whichever step of create_smooth_mesh fails, the call does *)
(* not raise; it returns the clean, unsmoothed mesh and prints the failure. *)
C2_FailureReturnsCleanMesh ==
    (Called("clean") /\ pc # "smooth" /\ Printed("Error durante el suavizado")) =>
        /\ error = "none"
        /\ Returned
        /\ smooth_mesh = CleanMeshOf(verts, faces)

(* C4: the mesh the smoothing step returns has as many points as the clean  *)
(* mesh it was given and the same cells, index for index, whether the       *)
(* filter ran or the handler returned the mesh as it was.                   *)
C4_TopologyPreserved ==
    (Called("smooth") /\ Returned) =>
        /\ Len(smooth_mesh.points) = Len(ArgOf("smooth").points)
        /\ smooth_mesh.cells = ArgOf("smooth").cells

C4_Witness ==
    /\ Called("smooth") /\ Returned
    /\ ~Printed("Error durante el suavizado")
    /\ smooth_mesh.points # mesh.points
    /\ \E k \in CellIx(mesh) : Len(mesh.cells[k]) = 3
    /\ \E k \in CellIx(mesh) : Len(mesh.cells[k]) < 3

C4_WitnessFallback ==
    /\ Called("smooth") /\ Returned
    /\ Printed("Error durante el suavizado")
    /\ Len(mesh.cells) >= 2

C8_EmptySoupHalts ==
    (Called("clean") /\ faces = <<>>) =>
        /\ error = "EmptyMeshError"
        /\ pc = "done"
        /\ ~Called("smooth")
        /\ saved = Unbound

(* C11: when the file at nifti_path does not exist, load_segmentation       *)
(* raises FileNotFoundError with a message naming the path, the run ends    *)
(* with that error printed, and no later stage is called: no field, mesh or *)
(* file is produced.                                                        *)
C11_MissingInputFatal ==
    (Called("load") /\ ~fileExists) =>
        /\ error = "FileNotFoundError" /\ pc = "done"
        /\ calls = <<[stage |-> "load", arg |-> nifti_path]>>
        /\ log = <<"Archivo no encontrado: " \o nifti_path, "Error en el proceso">>
        /\ segmentation_data = NoField /\ segmentation_data_filtered = NoField
        /\ verts = <<>> /\ faces = <<>>
        /\ mesh = Unbound /\ smooth_mesh = Unbound /\ saved = Unbound

C11_Witness ==
    /\ Called("load") /\ ~fileExists
    /\ Printed("Archivo no encontrado: time_01.nii.gz")

(* C12 as claimed: once create_smooth_mesh has been called, whether it     *)
(* succeeds or fails part-way, the vertex and face arrays it was given and  *)
(* the filtered field are as they were returned, and no variable's array is *)
(* the memory of another's.                                                 *)
C12_OutputsUntouchedAndUnshared ==
    Called("clean") =>
        /\ ArgOf("clean") = <<verts, faces>>
        /\ Called("extract") =>
               ArgOf("extract") = <<segmentation_data_filtered, spacing>>
        /\ shared = {}

(* The ids of a cell are ids of points of m and no id occurs twice. *)
WellFormed(m, k) ==
    /\ Range(m.cells[k]) \subseteq 0..(Len(m.points) - 1)
    /\ Cardinality(Range(m.cells[k])) = Len(m.cells[k])

(* The faces of the soup that use n different coordinates. *)
FacesOfRank(n) ==
    {i \in 1..Len(faces) :
        Cardinality({verts[faces[i][j] + 1] : j \in 1..3}) = n}

NiiNames(S) == {n \in S : n.ext = ".nii.gz"}

(* C14 as claimed: when renombrar_archivos has ended, the folder holds as   *)
(* many .nii.gz files as it did, named case_prefix_NN_0000.nii.gz with NN   *)
(* counting up from the first modality index; every file it held is still   *)
(* there (none was overwritten), and the .json that came with a file is in  *)
(* the json folder under that file's NN.                                    *)
C14_RenameKeepsEveryFile ==
    (pc = "done" /\ position > 0) =>
        LET before == NiiNames(Range(listing))
            after  == NiiNames(DOMAIN nii_folder)
            N      == Cardinality(before)
            nameOf(i) == new_name_nii(case_prefix, FirstModalityIndex + i - 1)
            jsonOf(i) == new_name_json(case_prefix, FirstModalityIndex + i - 1)
        IN  /\ error = "none"
            /\ Cardinality(after) = N
            /\ after = {nameOf(i) : i \in 1..N}
            /\ {nii_folder[n] : n \in after} = before
            /\ \A i \in 1..N :
                  nameOf(i) \in after =>
                     LET json == FileName(nii_folder[nameOf(i)].stem, ".json")
                     IN  json \in Range(listing) =>
                            /\ jsonOf(i) \in DOMAIN json_folder
                            /\ json_folder[jsonOf(i)] = json

(* C15 as claimed: a 4D volume split by time into an empty folder and       *)
(* merged back from that folder is the same volume: as many time points, in *)
(* the same order, with the same affine, however many time points it has.   *)
C15_SplitMergeRoundTrip ==
    (pc = "done" /\ input_4d # <<>> /\ input_4d.ndim = 4) =>
        /\ error = "none"
        /\ output_4d # <<>>
        /\ Len(output_4d.frames) = Len(input_4d.frames)
        /\ output_4d.frames = input_4d.frames
        /\ output_4d.affine = input_4d.affine

====
